---- MODULE Spec2Model ----
(***************************************************************************)
(* The checkpoint engine of src/services/checkpoints/                      *)
(* ShadowCheckpointService.ts: a shadow git repository whose metadata      *)
(* lives in checkpointsDir and whose working tree is the workspace.        *)
(*                                                                         *)
(* One service instance is live at a time; the constructor replaces it     *)
(* (a caller discards an instance and builds the next one on the same      *)
(* checkpointsDir).  Every public method is one action; the calls it makes *)
(* to git and the filesystem may throw, which the action's inputs choose.  *)
(* A commit hash is the commit's position in the repository's commit       *)
(* list; 0 stands for undefined / the empty string.                        *)
(***************************************************************************)
EXTENDS Integers, Sequences, FiniteSets, TLC

MaxCommits == 3
MaxContent == 2
MaxFaults == 1
MaxWarnings == 5

(* Calls of one instance that may be in flight at the same time.           *)
MaxCalls == 2

----------------------------------------------------------------------------
(* Paths are sequences of segments.                                        *)

NoPath == <<>>
homedir == <<"home", "user">>
join(p, s) == Append(p, s)
desktopPath == join(homedir, "Desktop")
documentsPath == join(homedir, "Documents")
downloadsPath == join(homedir, "Downloads")

protectedPaths_noDownloads == {homedir, desktopPath, documentsPath}
protectedPaths == {homedir, desktopPath, documentsPath, downloadsPath}

projDir == <<"work", "proj">>
otherDir == <<"work", "other">>
WorkspaceDirs ==
    {homedir, desktopPath, documentsPath, downloadsPath, projDir, otherDir}

----------------------------------------------------------------------------
(* The workspace: three files.  "a.txt" and "b.txt" are ordinary files the *)
(* agent edits; "e.log" matches the exclude patterns, exists and is left   *)
(* alone.  Content 0 is "no such file" (and the empty string).             *)

Files == {"a.txt", "b.txt", "e.log"}
EmptyTree == [f \in Files |-> 0]

getExcludePatterns == {"e.log"}

(* .git/HEAD markers the path enumeration can report: the root's own and a *)
(* nested repository's.  Which nested repositories the workspace holds     *)
(* when initShadowGit runs is an input of that call.                       *)
rootMarker == <<".git", "HEAD">>
nestedMarker == <<"sub", ".git", "HEAD">>
libMarker == <<"lib", ".git", "HEAD">>
NestedChoices == {{}, {nestedMarker}}

----------------------------------------------------------------------------
VARIABLES
    files,           \* workspace: file -> content
    dotGit,          \* checkpointsDir/.git exists
    coreWorktree,    \* the repository's core.worktree, NoPath when unset
    excludeFile,     \* .git/info/exclude: the set of excluded files
    index,           \* the staging area: file -> content
    commits,         \* the commit list: [tree, parent], hash = position
    HEAD,            \* the checked-out commit, 0 before the first commit
    savedFiles,      \* history: per commit, the workspace when it was made
    constructed,     \* an instance exists
    workspaceDir,    \* its workspaceDir
    git,             \* this.git is set
    baseHash,        \* this._baseHash, 0 when undefined
    checkpoints,     \* this._checkpoints
    shadowGitConfigWorktree, \* the cached core.worktree, NoPath when unset
    initCalls,       \* initShadowGit on this instance: 0 not called, 1 called
                     \* and none has returned, 2 a call has returned
    warningsShown,   \* the module's set of warning messages shown
    faults,          \* failures of external calls so far
    running,         \* the calls in flight: per call, the await it is suspended at
    last             \* the last call: arguments, outcome, events, calls made

repo == <<dotGit, coreWorktree, excludeFile, index, commits, HEAD, savedFiles>>
inst == <<constructed, workspaceDir, git, baseHash, checkpoints,
          shadowGitConfigWorktree, initCalls>>
vars == <<files, repo, inst, warningsShown, faults, running, last>>

(* A call in flight: the method, the await it is suspended at, its         *)
(* arguments and the values it holds in local variables.                   *)
CallIds == 1 .. MaxCalls
Idle == [op |-> "idle", pc |-> "", nested |-> {}, onInit |-> FALSE, exists |-> FALSE,
         allowEmpty |-> FALSE, suppressMessage |-> "unset", commit |-> 0,
         atCall |-> 0]

----------------------------------------------------------------------------
(* git, as the service uses it.                                            *)

Range(s) == {s[i] : i \in 1 .. Len(s)}

treeOf(cs, h) == IF h = 0 THEN EmptyTree ELSE cs[h].tree

(* git add . : every file that is tracked or not excluded is staged as it  *)
(* is in the workspace.                                                    *)
gitAdd(idx, fs, excl) ==
    [f \in Files |-> IF f \in excl /\ idx[f] = 0 THEN idx[f] ELSE fs[f]]

(* git commit: nothing is committed when the index equals HEAD's tree and  *)
(* --allow-empty is not given.                                             *)
nothingToCommit(idx, cs, h, allowEmpty) == ~allowEmpty /\ idx = treeOf(cs, h)

(* git.commit(message, commitArgs): the new commit's hash, 0 (the empty    *)
(* string) when nothing was committed.                                     *)
commitOf(idx, cs, h, allowEmpty) ==
    IF nothingToCommit(idx, cs, h, allowEmpty) THEN 0 ELSE Len(cs) + 1

(* git clean -f -d: untracked files that are not excluded are removed.     *)
gitClean(fs, idx, excl) ==
    [f \in Files |-> IF idx[f] = 0 /\ f \notin excl THEN 0 ELSE fs[f]]

(* git reset --hard: tracked files take the target tree's content.         *)
gitResetHard(fs, idx, t) ==
    [f \in Files |-> IF idx[f] # 0 \/ t[f] # 0 THEN t[f] ELSE fs[f]]

(* The directory git works on is the repository's core.worktree.  projDir  *)
(* holds `files`; otherDir is an empty directory nobody writes to.         *)
workTree == IF coreWorktree = projDir THEN files ELSE EmptyTree

(* The files staging would pick up whose content is not HEAD's.            *)
changedFiles ==
    {f \in Files \ excludeFile : workTree[f] # treeOf(commits, HEAD)[f]}

----------------------------------------------------------------------------
(* Records.                                                                *)

Event(type, from, to, created, suppress) ==
    [type |-> type, fromHash |-> from, toHash |-> to, created |-> created,
     suppressMessage |-> suppress, workspaceDir |-> NoPath]
ErrorEvent == Event("error", 0, 0, FALSE, FALSE)

(* What the last call was given (with the call that failed in it), how it  *)
(* ended, the events it emitted and the external calls it made, in order,  *)
(* and what the instance and the workspace were when it began.             *)
Call(op, wd, arg, allowEmpty, fault, outcome, err, ret, events, calls) ==
    [op |-> op, wd |-> wd, arg |-> arg, allowEmpty |-> allowEmpty, fault |-> fault,
     outcome |-> outcome, err |-> err, ret |-> ret, events |-> events,
     calls |-> calls, created |-> FALSE, nested |-> {}, diff |-> {},
     suppressMessage |-> "unset", list |-> <<>>, branch |-> <<>>, dialogs |-> <<>>,
     preCheckpoints |-> checkpoints, preBaseHash |-> baseHash, preGit |-> git,
     preInitCalls |-> initCalls, preHEAD |-> HEAD, preIndex |-> index,
     changed |-> changedFiles]

Edit == Call("edit", NoPath, 0, FALSE, "none", "none", "", 0, <<>>, <<>>)

----------------------------------------------------------------------------
(* get isInitialized(), lines 59-61.                                       *)
isInitialized_never == FALSE
isInitialized_always == TRUE
isInitialized == git

----------------------------------------------------------------------------
(* An external call fails only while the budget of failures lasts.         *)
inject(fault) ==
    IF fault = "none" THEN UNCHANGED faults
    ELSE faults < MaxFaults /\ faults' = faults + 1

----------------------------------------------------------------------------
(* showWarning(message), lines 29-35: the set of messages shown after the  *)
(* call and the dialogs the call opens.                                    *)
showWarning_always(shown, message) ==
    [shown |-> shown \cup {message}, dialogs |-> <<message>>]
showWarning(shown, message) ==
    IF Cardinality(shown) < MaxWarnings /\ message \notin shown
    THEN [shown |-> shown \cup {message}, dialogs |-> <<message>>]
    ELSE [shown |-> shown, dialogs |-> <<>>]

----------------------------------------------------------------------------
Init ==
    /\ files = [f \in Files |-> 1]
    /\ dotGit = FALSE
    /\ coreWorktree = NoPath
    /\ excludeFile = {}
    /\ index = EmptyTree
    /\ commits = <<>>
    /\ HEAD = 0
    /\ savedFiles = <<>>
    /\ constructed = FALSE
    /\ workspaceDir = NoPath
    /\ git = FALSE
    /\ baseHash = 0
    /\ checkpoints = <<>>
    /\ shadowGitConfigWorktree = NoPath
    /\ initCalls = 0
    /\ warningsShown = {}
    /\ faults = 0
    /\ running = [c \in CallIds |-> Idle]
    /\ last = Edit

----------------------------------------------------------------------------
(* The user, or the agent, edits the workspace.                            *)

writeFile(f, c) ==
    /\ files[f] # c
    /\ files' = [files EXCEPT ![f] = c]
    /\ last' = Edit
    /\ UNCHANGED <<repo, inst, warningsShown, faults, running>>

----------------------------------------------------------------------------
(* constructor(taskId, checkpointsDir, workspaceDir, log), lines 67-87.    *)
(* The instance built before, if any, is dropped.                          *)

new(wd) ==
    /\ IF wd \in protectedPaths
       THEN LET w == showWarning(warningsShown, <<"protectedPaths", wd>>) IN
            /\ warningsShown' = w.shown
            /\ constructed' = FALSE
            /\ workspaceDir' = NoPath
            /\ last' = [Call("new", wd, 0, FALSE, "none", "throw", "protected", 0,
                             <<>>, <<>>)
                        EXCEPT !.dialogs = w.dialogs]
       ELSE /\ constructed' = TRUE
            /\ workspaceDir' = wd
            /\ last' = Call("new", wd, 0, FALSE, "none", "ok", "", 0, <<>>, <<>>)
            /\ UNCHANGED warningsShown
    /\ git' = FALSE
    /\ baseHash' = 0
    /\ checkpoints' = <<>>
    /\ shadowGitConfigWorktree' = NoPath
    /\ initCalls' = 0
    /\ UNCHANGED <<files, repo, faults, running>>

----------------------------------------------------------------------------
(* getNestedGitRepository(), lines 185-235.                                *)

(* What the path enumeration lists for "**/.git/HEAD" under the workspace. *)
executeRipgrep(nested) ==
    {[type |-> "file", path |-> p] : p \in {rootMarker} \cup nested}

includesGitHead(p) ==
    \E i \in 1 .. Len(p) - 1 : p[i] = ".git" /\ p[i + 1] = "HEAD"

isNestedGitHead_includes(r) ==
    /\ r.type = "file"
    /\ includesGitHead(r.path)
    /\ ~(\E i \in 1 .. Len(r.path) : r.path[i] = ".git")
    /\ r.path # rootMarker

(* The filter of lines 194-205.                                            *)
isNestedGitHead(r) ==
    /\ r.type = "file"
    /\ includesGitHead(r.path)
    /\ ~(Len(r.path) >= 2 /\ r.path[1] = ".git")
    /\ r.path # rootMarker

dirname(p) == SubSeq(p, 1, Len(p) - 1)

getNestedGitRepository_found(nested, fault) ==
    IF fault = "executeRipgrep" THEN workspaceDir \o <<"unknown">>
    ELSE LET nestedGitPaths == {r \in executeRipgrep(nested) : isNestedGitHead(r)}
         IN  IF nestedGitPaths # {}
             THEN workspaceDir \o dirname(dirname((CHOOSE r \in nestedGitPaths : TRUE).path))
             ELSE NoPath

(* The absolute path of the first nested repository, NoPath for null; a    *)
(* failed enumeration is caught and reported as null.                      *)
getNestedGitRepository(nested, fault) ==
    IF fault = "executeRipgrep" THEN NoPath
    ELSE LET nestedGitPaths == {r \in executeRipgrep(nested) : isNestedGitHead(r)}
         IN  IF nestedGitPaths # {}
             THEN workspaceDir \o dirname(dirname((CHOOSE r \in nestedGitPaths : TRUE).path))
             ELSE NoPath

relative(from, to) == SubSeq(to, Len(from) + 1, Len(to))

(* getShadowGitConfigWorktree(git), lines 237-250: the cached value, or    *)
(* the repository's core.worktree; a failed lookup is caught and leaves    *)
(* the value undefined.                                                    *)
getShadowGitConfigWorktree_fallback(fault) == workspaceDir
getShadowGitConfigWorktree(fault) ==
    IF shadowGitConfigWorktree # NoPath THEN shadowGitConfigWorktree
    ELSE IF fault = "getConfig" THEN NoPath
    ELSE coreWorktree

(* stageAll(git), lines 174-183: git add . with its failure swallowed; a   *)
(* failed add leaves the index as it was.                                  *)
stageAll_skip(idx, fs, excl, fault) == idx
stageAll(idx, fs, excl, fault) ==
    IF fault = "add" THEN idx ELSE gitAdd(idx, fs, excl)

(* Lines 177-182: stageAll catches the failure of git add, so the call of  *)
(* stageAll is never rejected.                                             *)
stageAllRejects_onFailure(fault) == fault = "add"
stageAllRejects(fault) == FALSE

----------------------------------------------------------------------------
(* initShadowGit(onInit), lines 89-161.                                    *)
(*   nested: the nested repositories' markers in the workspace;            *)
(*   onInit: the callback is given;                                        *)
(*   fault: the call that fails.                                           *)

InitFaults ==
    {"none", "executeRipgrep", "mkdir", "version", "getConfig", "init",
     "addConfig:core.worktree", "addConfig", "writeExcludeFile", "add", "revparse",
     "commit", "onInit"}

(* Line 137: the initial commit is made with --allow-empty.                *)
initialCommitAllowEmpty_unset == FALSE
initialCommitAllowEmpty == TRUE

(* The state the call works on.                                            *)
initStart ==
    [dotGit |-> dotGit, coreWorktree |-> coreWorktree, excludeFile |-> excludeFile,
     index |-> index, commits |-> commits, HEAD |-> HEAD, savedFiles |-> savedFiles,
     git |-> git, baseHash |-> baseHash, cached |-> shadowGitConfigWorktree,
     warningsShown |-> warningsShown, dialogs |-> <<>>,
     outcome |-> "ok", err |-> "", created |-> FALSE, events |-> <<>>, calls |-> <<>>]

threw(st, err, calls) ==
    [st EXCEPT !.outcome = "throw", !.err = err, !.calls = st.calls \o calls]

initFinish_emitFirst(st, created, onInit, fault) ==
    LET s1 == [st EXCEPT !.git = TRUE, !.created = created,
                         !.events = <<[Event("initialize", 0, st.baseHash, created, FALSE)
                                       EXCEPT !.workspaceDir = workspaceDir]>>] IN
    IF onInit /\ fault = "onInit" THEN threw(s1, "onInit", <<"onInit">>)
    ELSE [s1 EXCEPT !.calls = s1.calls \o (IF onInit THEN <<"onInit">> ELSE <<>>)]

initFinish_onInitFirst(st, created, onInit, fault) ==
    IF onInit /\ fault = "onInit" THEN threw(st, "onInit", <<"onInit">>)
    ELSE [st EXCEPT
            !.git = TRUE, !.created = created,
            !.events = <<[Event("initialize", 0, st.baseHash, created, FALSE)
                          EXCEPT !.workspaceDir = workspaceDir]>>,
            !.calls = st.calls \o (IF onInit THEN <<"onInit">> ELSE <<>>)]

initFinish_noGit(st, created, onInit, fault) ==
    LET s1 == [st EXCEPT !.created = created] IN
    IF onInit /\ fault = "onInit" THEN threw(s1, "onInit", <<"onInit">>)
    ELSE [s1 EXCEPT
            !.events = <<[Event("initialize", 0, s1.baseHash, created, FALSE)
                          EXCEPT !.workspaceDir = workspaceDir]>>,
            !.calls = s1.calls \o (IF onInit THEN <<"onInit">> ELSE <<>>)]

(* Lines 142-160: the instance becomes initialized, onInit runs, the       *)
(* initialize event is emitted.                                            *)
initFinish(st, created, onInit, fault) ==
    LET s1 == [st EXCEPT !.git = TRUE, !.created = created] IN
    IF onInit /\ fault = "onInit" THEN threw(s1, "onInit", <<"onInit">>)
    ELSE [s1 EXCEPT
            !.events = <<[Event("initialize", 0, s1.baseHash, created, FALSE)
                          EXCEPT !.workspaceDir = workspaceDir]>>,
            !.calls = s1.calls \o (IF onInit THEN <<"onInit">> ELSE <<>>)]

(* writeExcludeFile(), lines 168-172: .git/info/exclude is overwritten     *)
(* with the exclude patterns.                                              *)
writeExcludeFile_skip(excluded) == excluded
writeExcludeFile(excluded) == getExcludePatterns

(* Lines 116-127: the repository exists already.                           *)
initReopen(st, onInit, fault) ==
    LET worktree == getShadowGitConfigWorktree(fault)
        s1 == [st EXCEPT !.cached = worktree,
                         !.calls = st.calls \o
                            (IF shadowGitConfigWorktree = NoPath
                             THEN <<"getConfig">> ELSE <<>>)]
    IN  IF worktree # workspaceDir THEN threw(s1, "worktreeMismatch", <<>>)
        ELSE IF fault = "writeExcludeFile"
        THEN threw(s1, "io", <<"writeExcludeFile">>)
        ELSE LET s2 == [s1 EXCEPT !.excludeFile = writeExcludeFile(st.excludeFile),
                                  !.calls = s1.calls \o <<"writeExcludeFile">>]
             IN  IF fault = "revparse" \/ st.HEAD = 0
                 THEN threw(s2, "git", <<"revparse">>)
                 ELSE initFinish([s2 EXCEPT !.baseHash = st.HEAD,
                                            !.calls = s2.calls \o <<"revparse">>],
                                 FALSE, onInit, fault)

(* Lines 128-140: the repository is created.                               *)
initCreate(st, onInit, fault) ==
    IF fault = "init" THEN threw(st, "git", <<"init">>)
    ELSE
    LET s1 == [st EXCEPT !.dotGit = TRUE, !.calls = st.calls \o <<"init">>] IN
    IF fault = "addConfig:core.worktree" THEN threw(s1, "git", <<"addConfig">>)
    ELSE
    LET s2 == [s1 EXCEPT !.coreWorktree = workspaceDir,
                         !.calls = s1.calls \o <<"addConfig">>] IN
    IF fault = "addConfig" THEN threw(s2, "git", <<"addConfig">>)
    ELSE IF fault = "writeExcludeFile" THEN threw(s2, "io", <<"writeExcludeFile">>)
    ELSE IF stageAllRejects(fault)
    THEN threw([s2 EXCEPT !.excludeFile = writeExcludeFile(st.excludeFile)], "git",
               <<"writeExcludeFile", "add">>)
    ELSE
    LET wt == IF workspaceDir = projDir THEN files ELSE EmptyTree
        s3 == [s2 EXCEPT !.excludeFile = writeExcludeFile(st.excludeFile),
                         !.index = stageAll(st.index, wt,
                                            writeExcludeFile(st.excludeFile), fault),
                         !.calls = s2.calls \o <<"writeExcludeFile", "add">>] IN
    IF fault = "commit" THEN threw(s3, "git", <<"commit">>)
    ELSE
    LET commit == commitOf(s3.index, st.commits, st.HEAD, initialCommitAllowEmpty)
        s4 == IF commit # 0
              THEN [s3 EXCEPT !.commits = Append(st.commits,
                                                 [tree |-> s3.index, parent |-> st.HEAD]),
                              !.savedFiles = Append(st.savedFiles,
                                                    [by |-> "init", files |-> wt,
                                                     staged |-> fault # "add"]),
                              !.HEAD = commit]
              ELSE s3
    IN  initFinish([s4 EXCEPT !.baseHash = commit, !.calls = s3.calls \o <<"commit">>],
                   TRUE, onInit, fault)

(* Line 116: the repository's metadata directory exists.                  *)
fileExistsAtPath_never == FALSE
fileExistsAtPath == dotGit

(* Lines 94-114: the nested-repository check, the directory and the git    *)
(* client, up to the test of line 116.                                     *)
initCheck(nested, fault) ==
    LET nestedGitPath == getNestedGitRepository(nested, fault)
        s1 == [initStart EXCEPT !.calls = <<"executeRipgrep">>]
    IN  IF nestedGitPath # NoPath
        THEN LET w == showWarning(warningsShown,
                                  <<"nestedGitRepos", relative(workspaceDir, nestedGitPath)>>)
             IN  threw([s1 EXCEPT !.warningsShown = w.shown, !.dialogs = w.dialogs],
                       "nestedGitRepo", <<>>)
        ELSE IF fault = "mkdir" THEN threw(s1, "io", <<"mkdir">>)
        ELSE IF fault = "version" THEN threw(s1, "git", <<"mkdir", "version">>)
        ELSE [s1 EXCEPT !.calls = s1.calls \o <<"mkdir", "version", "fileExists">>]

(* Lines 116-160: the branch taken on the answer of line 116.              *)
initRest(st, exists, onInit, fault) ==
    IF exists
    THEN initReopen(st, onInit, fault)
    ELSE initCreate(st, onInit, fault)

initOutcome(nested, onInit, fault) ==
    IF isInitialized THEN threw(initStart, "alreadyInitialized", <<>>)
    ELSE LET s2 == initCheck(nested, fault)
         IN  IF s2.outcome = "throw"
             THEN s2
             ELSE initRest(s2, fileExistsAtPath, onInit, fault)

(* What a call of initShadowGit that ends with r leaves behind.            *)
initEffect(r, nested, fault) ==
    /\ dotGit' = r.dotGit
    /\ coreWorktree' = r.coreWorktree
    /\ excludeFile' = r.excludeFile
    /\ index' = r.index
    /\ commits' = r.commits
    /\ HEAD' = r.HEAD
    /\ savedFiles' = r.savedFiles
    /\ git' = r.git
    /\ baseHash' = r.baseHash
    /\ shadowGitConfigWorktree' = r.cached
    /\ warningsShown' = r.warningsShown
    /\ last' = [Call("init", workspaceDir, 0, FALSE, fault, r.outcome, r.err, 0,
                     r.events, r.calls)
                EXCEPT !.created = r.outcome = "ok" /\ r.created,
                       !.nested = nested, !.dialogs = r.dialogs]

initShadowGit(nested, onInit, fault) ==
    /\ constructed
    /\ inject(fault)
    /\ initEffect(initOutcome(nested, onInit, fault), nested, fault)
    /\ initCalls' = IF initOutcome(nested, onInit, fault).outcome = "ok" \/ initCalls = 2
                    THEN 2 ELSE 1
    /\ UNCHANGED <<files, constructed, workspaceDir, checkpoints, running>>

----------------------------------------------------------------------------
(* saveCheckpoint(message, options), lines 252-299.                        *)
(*   allowEmpty: options.allowEmpty is set;                                *)
(*   suppressMessage: "unset", "true" or "false";                          *)
(*   fault: "add" (swallowed by stageAll) or "commit".                     *)

(* Lines 269-271: the hash the call records.                               *)
fromHashOf(cps, base) == IF cps # <<>> THEN cps[Len(cps)] ELSE base
pushCheckpoint_unshift(cps, base, commit) ==
    <<IF commit # 0 THEN commit ELSE fromHashOf(cps, base)>> \o cps
pushCheckpoint_fromHash(cps, base, commit) == Append(cps, fromHashOf(cps, base))
pushCheckpoint(cps, base, commit) ==
    Append(cps, IF commit # 0 THEN commit ELSE fromHashOf(cps, base))

(* Lines 274-282: the checkpoint event, emitted when a commit was made.    *)
checkpointEvents_notSuppressed(fromHash, commit, suppressMessage) ==
    IF commit # 0
    THEN <<Event("checkpoint", fromHash, commit, FALSE, FALSE)>>
    ELSE <<>>
checkpointEvents(fromHash, commit, suppressMessage) ==
    IF commit # 0
    THEN <<Event("checkpoint", fromHash, commit, FALSE, suppressMessage = "true")>>
    ELSE <<>>

caught_silent(st, err, calls) == [st EXCEPT !.calls = st.calls \o calls]

(* Lines 293-298: the catch block.                                         *)
caught(st, err, calls) ==
    [st EXCEPT !.outcome = "throw", !.err = err, !.events = <<ErrorEvent>>,
               !.calls = st.calls \o calls]

opStart ==
    [files |-> files, index |-> index, commits |-> commits, HEAD |-> HEAD,
     savedFiles |-> savedFiles, checkpoints |-> checkpoints,
     outcome |-> "ok", err |-> "", ret |-> 0, events |-> <<>>, calls |-> <<>>]

saveOutcome(allowEmpty, suppressMessage, fault) ==
    IF ~isInitialized THEN caught(opStart, "notInitialized", <<>>)
    ELSE IF stageAllRejects(fault) THEN caught(opStart, "git", <<"add">>)
    ELSE
    LET s1 == [opStart EXCEPT !.index = stageAll(index, workTree, excludeFile, fault),
                              !.calls = <<"add">>] IN
    IF fault = "commit" THEN caught(s1, "git", <<"commit">>)
    ELSE
    LET commit == commitOf(s1.index, commits, HEAD, allowEmpty)
        fromHash == fromHashOf(checkpoints, baseHash)
        s2 == IF commit # 0
              THEN [s1 EXCEPT !.commits = Append(commits,
                                                 [tree |-> s1.index, parent |-> HEAD]),
                              !.savedFiles = Append(savedFiles,
                                                    [by |-> "save", files |-> workTree,
                                                     staged |-> fault # "add"]),
                              !.HEAD = commit]
              ELSE s1
    IN  [s2 EXCEPT !.checkpoints = pushCheckpoint(checkpoints, baseHash, commit),
                   !.ret = commit,
                   !.events = checkpointEvents(fromHash, commit, suppressMessage),
                   !.calls = s1.calls \o <<"commit">>]

saveCheckpoint(allowEmpty, suppressMessage, fault) ==
    /\ constructed
    /\ inject(fault)
    /\ Len(checkpoints) < MaxCommits
    /\ Len(commits) < MaxCommits
    /\ LET r == saveOutcome(allowEmpty, suppressMessage, fault) IN
        /\ index' = r.index
        /\ commits' = r.commits
        /\ HEAD' = r.HEAD
        /\ savedFiles' = r.savedFiles
        /\ checkpoints' = r.checkpoints
        /\ last' = [Call("save", workspaceDir, 0, allowEmpty, fault, r.outcome, r.err,
                         r.ret, r.events, r.calls)
                    EXCEPT !.suppressMessage = suppressMessage]
    /\ UNCHANGED <<files, dotGit, coreWorktree, excludeFile, constructed,
                   workspaceDir, git, baseHash, shadowGitConfigWorktree, initCalls,
                   warningsShown, running>>

----------------------------------------------------------------------------
(* restoreCheckpoint(commitHash), lines 301-329.                           *)
(*   fault: "clean" or "reset"; a reset to a hash the repository does not  *)
(*   hold fails too.                                                       *)

restoredFiles_cleanOnly(fs, idx, excl, t) == gitClean(fs, idx, excl)
restoredFiles_resetOnly(fs, idx, excl, t) == gitResetHard(fs, idx, t)

(* Lines 310-311: git clean -f -d, then git reset --hard commitHash.       *)
restoredFiles(fs, idx, excl, t) == gitResetHard(gitClean(fs, idx, excl), idx, t)

(* Lines 313-318: the checkpoints up to and including commitHash.          *)
indexOf(cps, h) ==
    IF h \in Range(cps) THEN CHOOSE i \in 1 .. Len(cps) :
                                /\ cps[i] = h
                                /\ \A j \in 1 .. i - 1 : cps[j] # h
    ELSE 0
truncated_exclusive(cps, commitHash) ==
    IF indexOf(cps, commitHash) # 0
    THEN SubSeq(cps, 1, indexOf(cps, commitHash) - 1)
    ELSE cps
truncated(cps, commitHash) ==
    IF indexOf(cps, commitHash) # 0
    THEN SubSeq(cps, 1, indexOf(cps, commitHash))
    ELSE cps

(* Lines 310-318: the sequence is cut after the reset has returned; when   *)
(* the reset is awaited it is as the call found it.                        *)
checkpointsAtReset_truncated(cps, commitHash) == truncated(cps, commitHash)
checkpointsAtReset(cps, commitHash) == cps

(* Lines 320-321: the restore event.                                       *)
restoreEvents_none(commitHash) == <<>>
restoreEvents(commitHash) == <<Event("restore", 0, commitHash, FALSE, FALSE)>>

restoreOutcome(commitHash, fault) ==
    IF ~isInitialized THEN caught(opStart, "notInitialized", <<>>)
    ELSE IF fault = "clean" THEN caught(opStart, "git", <<"clean">>)
    ELSE
    LET s1 == [opStart EXCEPT !.files = gitClean(workTree, index, excludeFile),
                              !.checkpoints = checkpointsAtReset(checkpoints, commitHash),
                              !.calls = <<"clean">>] IN
    IF fault = "reset" \/ commitHash \notin 1 .. Len(commits)
    THEN caught(s1, "git", <<"reset">>)
    ELSE [s1 EXCEPT !.files = restoredFiles(workTree, index, excludeFile,
                                            commits[commitHash].tree),
                    !.index = commits[commitHash].tree,
                    !.HEAD = commitHash,
                    !.checkpoints = truncated(checkpoints, commitHash),
                    !.events = restoreEvents(commitHash),
                    !.calls = s1.calls \o <<"reset">>]

restoreCheckpoint(commitHash, fault) ==
    /\ constructed
    /\ inject(fault)
    /\ LET r == restoreOutcome(commitHash, fault) IN
        /\ files' = IF coreWorktree = projDir THEN r.files ELSE files
        /\ index' = r.index
        /\ HEAD' = r.HEAD
        /\ checkpoints' = r.checkpoints
        /\ last' = Call("restore", workspaceDir, commitHash, FALSE, fault, r.outcome,
                        r.err, 0, r.events, r.calls)
    /\ UNCHANGED <<dotGit, coreWorktree, excludeFile, commits, savedFiles,
                   constructed, workspaceDir, git, baseHash, shadowGitConfigWorktree,
                   initCalls, warningsShown, running>>

----------------------------------------------------------------------------
(* getDiff({ from, to }), lines 331-372.                                   *)
(*   from, to: a hash, 0 when omitted;                                     *)
(*   fault: "rev-list", "add" (swallowed), "diffSummary", "getConfig"      *)
(*   (swallowed), or the read of a.txt's content "before" or "after"       *)
(*   (caught per file).                                                    *)


rootOf_head(cs, h) == h
RECURSIVE rootOf(_, _)
rootOf(cs, h) == IF cs[h].parent = 0 THEN h ELSE rootOf(cs, cs[h].parent)

(* git diff --stat <from> and <from>..<to>: the files that differ.         *)
diffSummary(cs, idx, fs, from, to) ==
    IF to # 0
    THEN {f \in Files : cs[from].tree[f] # cs[to].tree[f]}
    ELSE {f \in Files : (idx[f] # 0 \/ cs[from].tree[f] # 0) /\ fs[f] # cs[from].tree[f]}

diffEntries_bothSides(cs, fs, changed, from, to, cwdPath, fault) ==
    {[relative |-> f,
      absolute |-> join(cwdPath, f),
      before |-> IF fault \in {"before", "after"} /\ f = "a.txt" THEN 0
                 ELSE cs[from].tree[f],
      after |-> IF fault \in {"before", "after"} /\ f = "a.txt" THEN 0
                ELSE IF to # 0 THEN cs[to].tree[f] ELSE fs[f]] : f \in changed}

(* Lines 350-369: one record per changed file; a failed read gives "".     *)
diffEntries(cs, fs, changed, from, to, cwdPath, fault) ==
    {[relative |-> f,
      absolute |-> join(cwdPath, f),
      before |-> IF fault = "before" /\ f = "a.txt" THEN 0 ELSE cs[from].tree[f],
      after |-> IF fault = "after" /\ f = "a.txt" THEN 0
                ELSE IF to # 0 THEN cs[to].tree[f] ELSE fs[f]] : f \in changed}

getDiff(from, to, fault) ==
    /\ constructed
    /\ inject(fault)
    /\ IF ~isInitialized
       THEN /\ last' = Call("diff", workspaceDir, from, FALSE, fault, "throw",
                            "notInitialized", to, <<>>, <<>>)
            /\ UNCHANGED <<index, shadowGitConfigWorktree>>
       ELSE IF from = 0 /\ fault = "rev-list"
       THEN /\ last' = Call("diff", workspaceDir, from, FALSE, fault, "throw", "git",
                            to, <<>>, <<"rev-list">>)
            /\ UNCHANGED <<index, shadowGitConfigWorktree>>
       ELSE IF stageAllRejects(fault)
       THEN /\ last' = Call("diff", workspaceDir, from, FALSE, fault, "throw", "git",
                            to, <<>>,
                            (IF from = 0 THEN <<"rev-list">> ELSE <<>>) \o <<"add">>)
            /\ UNCHANGED <<index, shadowGitConfigWorktree>>
       ELSE LET base == IF from = 0 THEN rootOf(commits, HEAD) ELSE from
                idx == stageAll(index, workTree, excludeFile, fault)
                revList == IF from = 0 THEN <<"rev-list">> ELSE <<>>
            IN  /\ index' = idx
                /\ IF \/ fault = "diffSummary"
                      \/ base \notin 1 .. Len(commits)
                      \/ to \notin 0 .. Len(commits)
                   THEN /\ last' = Call("diff", workspaceDir, from, FALSE, fault,
                                        "throw", "git", to, <<>>,
                                        revList \o <<"add", "diffSummary">>)
                        /\ UNCHANGED shadowGitConfigWorktree
                   ELSE LET worktree == getShadowGitConfigWorktree(fault)
                            cwdPath == IF worktree # NoPath THEN worktree
                                       ELSE workspaceDir
                            changed == diffSummary(commits, idx, workTree, base, to)
                        IN  /\ shadowGitConfigWorktree' = worktree
                            /\ last' = [Call("diff", workspaceDir, from, FALSE, fault,
                                             "ok", "", to, <<>>,
                                             revList \o <<"add", "diffSummary">>)
                                        EXCEPT !.diff =
                                            diffEntries(commits, workTree, changed, base,
                                                        to, cwdPath, fault)]
    /\ UNCHANGED <<files, dotGit, coreWorktree, excludeFile, commits, HEAD,
                   savedFiles, constructed, workspaceDir, git, baseHash, checkpoints,
                   initCalls, warningsShown, running>>

----------------------------------------------------------------------------
(* getCheckpoints(), lines 63-65: a copy of the checkpoint sequence.       *)

slice(cps) == SubSeq(cps, 1, Len(cps))

getCheckpoints ==
    /\ constructed
    /\ last' = [Call("getCheckpoints", workspaceDir, 0, FALSE, "none", "ok", "", 0,
                     <<>>, <<>>)
                EXCEPT !.list = slice(checkpoints)]
    /\ UNCHANGED <<files, repo, inst, warningsShown, faults, running>>

----------------------------------------------------------------------------
(* static deleteTask({ taskId, globalStorageDir, workspaceDir }), lines    *)
(* 416-435, with deleteBranch, lines 437-483.  It works on the repository  *)
(* at workspaceRepoDir and on no instance.                                 *)
(*   repository: that repository when the call begins: its local branches, *)
(*   the branch HEAD is on, its core.worktree (NoPath when it has none);   *)
(*   lag: how many polls of the branch switch still find HEAD on the old   *)
(*   branch after the checkout has returned;                               *)
(*   fault: the git call that is rejected.                                 *)

taskBranch == "roo-task"
BranchChoices ==
    {{"master"}, {"master", taskBranch}, {"main", taskBranch},
     {"main", "master", taskBranch}, {taskBranch}}

Repositories ==
    {[branches |-> bs, current |-> c, worktree |-> w] :
        bs \in BranchChoices, c \in {"main", "master", taskBranch}, w \in {NoPath, projDir}}

BranchFaults ==
    {"none", "branchLocal", "revparse", "getConfig", "unset", "reset", "clean",
     "checkout", "poll", "branch", "addConfig"}

(* Line 453.                                                               *)
defaultBranch(branches) == IF "main" \in branches THEN "main" ELSE "master"

(* Line 464: { interval: 500, timeout: 2_000 }.                            *)
pollInterval == 500
pollTimeout == 2000
MaxPolls == pollTimeout \div pollInterval

(* pWaitFor(condition, { interval, timeout }), lines 457-465: the          *)
(* condition is evaluated at once and then every interval until it holds,  *)
(* it rejects, or the timeout has passed.                                  *)
pWaitFor_once(lag, fault) ==
    [polls |-> 1, result |-> "confirmed"]
pWaitFor_unbounded(lag, fault) ==
    [polls |-> lag + 1, result |-> "confirmed"]
pWaitFor(lag, fault) ==
    IF fault = "poll" THEN [polls |-> 1, result |-> "rejected"]
    ELSE IF lag < MaxPolls THEN [polls |-> lag + 1, result |-> "confirmed"]
    ELSE [polls |-> MaxPolls, result |-> "timeout"]

polled(n) == [i \in 1 .. n |-> "poll"]

(* Lines 475-479: the finally block puts core.worktree back.               *)
restoreWorktree_never(st, worktree, fault) == st
restoreWorktree(st, worktree, fault) ==
    IF worktree = NoPath THEN st
    ELSE IF fault = "addConfig"
    THEN [st EXCEPT !.outcome = "throw", !.success = FALSE,
                    !.calls = st.calls \o <<"addConfig">>]
    ELSE [st EXCEPT !.after.worktree = worktree, !.calls = st.calls \o <<"addConfig">>]

(* Lines 467-473: the catch block.                                         *)
deleteFailed(st, calls) ==
    [st EXCEPT !.success = FALSE, !.calls = st.calls \o calls]

(* workspaceRepoDir(), lines 405-414: the directory of the repository      *)
(* deleteTask works on, in the extension's storage.                        *)
workspaceRepoDir == <<"storage", "checkpoints", "hash">>

(* The directory whose files git resets, cleans and checks out: the        *)
(* repository's core.worktree, its own directory when it has none.         *)
gitWorkTree(repository) ==
    IF repository.worktree # NoPath THEN repository.worktree ELSE workspaceRepoDir

(* Line 448: git config --unset core.worktree.                             *)
unsetWorktree_skip(st) == st
unsetWorktree(st) == [st EXCEPT !.after.worktree = NoPath]

(* Lines 447-466: the try block, for the branch HEAD is on.  git refuses   *)
(* to delete the branch HEAD is on.                                        *)
deleteCurrent(st, branchName, lag, fault) ==
    IF fault = "unset" THEN deleteFailed(st, <<"unset">>)
    ELSE
    LET s0 == unsetWorktree(st)
        s1 == [s0 EXCEPT !.actedOn = {gitWorkTree(s0.after)}] IN
    IF fault = "reset" THEN deleteFailed(s1, <<"unset", "reset">>)
    ELSE IF fault = "clean" THEN deleteFailed(s1, <<"unset", "reset", "clean">>)
    ELSE
    LET branches == st.after.branches
        s2 == [s1 EXCEPT !.calls = st.calls \o <<"unset", "reset", "clean", "checkout">>]
    IN
    IF fault = "checkout" \/ defaultBranch(branches) \notin branches
    THEN deleteFailed(s2, <<>>)
    ELSE
    LET w == pWaitFor(lag, fault)
        s3 == [s2 EXCEPT !.polls = w.polls,
                         !.calls = s2.calls \o polled(w.polls),
                         !.after.current = IF w.polls > lag THEN defaultBranch(branches)
                                           ELSE branchName]
    IN
    IF w.result # "confirmed"
    THEN [deleteFailed(s3, <<>>) EXCEPT !.timedOut = w.result = "timeout"]
    ELSE
    LET s4 == [s3 EXCEPT !.headAtDelete = s3.after.current] IN
    IF fault = "branch" \/ s3.after.current = branchName
    THEN deleteFailed(s4, <<"branch">>)
    ELSE [s4 EXCEPT !.success = TRUE, !.after.branches = branches \ {branchName},
                    !.calls = s4.calls \o <<"branch">>]

(* Line 440: branches.all.includes(branchName).                            *)
branchExists_always(branches, branchName) == TRUE
branchExists(branches, branchName) == branchName \in branches

(* deleteBranch: its result, the git calls it makes and the repository it  *)
(* leaves; a rejected call outside the try block rejects deleteBranch.     *)
deleteBranch(repository, branchName, lag, fault) ==
    LET st == [outcome |-> "ok", success |-> FALSE, calls |-> <<"branchLocal">>,
               polls |-> 0, timedOut |-> FALSE, headAtDelete |-> "", actedOn |-> {},
               before |-> repository, after |-> repository, lag |-> lag]
        rejected(calls) == [st EXCEPT !.outcome = "throw", !.calls = st.calls \o calls]
    IN
    IF fault = "branchLocal" THEN rejected(<<>>)
    ELSE IF ~branchExists(repository.branches, branchName) THEN st
    ELSE IF fault = "revparse" THEN rejected(<<"revparse">>)
    ELSE IF repository.current = branchName
    THEN IF fault = "getConfig" THEN rejected(<<"revparse", "getConfig">>)
         ELSE restoreWorktree(
                deleteCurrent([st EXCEPT !.calls = st.calls \o <<"revparse", "getConfig">>],
                              branchName, lag, fault),
                repository.worktree, fault)
    ELSE IF fault = "branch"
    THEN [rejected(<<"revparse", "branch">>) EXCEPT !.headAtDelete = repository.current]
    ELSE [st EXCEPT !.success = TRUE, !.headAtDelete = repository.current,
                    !.after.branches = repository.branches \ {branchName},
                    !.calls = st.calls \o <<"revparse", "branch">>]

deleteTask(repository, lag, fault) ==
    /\ inject(fault)
    /\ LET r == deleteBranch(repository, taskBranch, lag, fault) IN
        last' = [Call("deleteTask", projDir, 0, FALSE, fault, r.outcome,
                      IF r.outcome = "throw" THEN "git" ELSE "", 0, <<>>, r.calls)
                 EXCEPT !.created = r.success, !.branch = r]
    /\ UNCHANGED <<files, repo, inst, warningsShown, running>>

----------------------------------------------------------------------------
(* Spec: the checkpoint operations of one instance.  The instance is built *)
(* on projDir and initialized; the agent edits a.txt between the calls.    *)

Next ==
    \/ \E c \in 1 .. MaxContent : writeFile("a.txt", c)
    \/ (~constructed /\ new(projDir))
    \/ initShadowGit({}, FALSE, "none")
    \/ \E allowEmpty \in BOOLEAN : \E fault \in {"none", "add", "commit"} :
            saveCheckpoint(allowEmpty, "unset", fault)
    \/ \E commitHash \in 1 .. Len(commits) + 1 : \E fault \in {"none", "clean", "reset"} :
            restoreCheckpoint(commitHash, fault)
    \/ \E fault \in {"none", "add"} : getDiff(0, 0, fault)

Spec == Init /\ [][Next]_vars

----------------------------------------------------------------------------
(* SpecCalls: every method of one instance on projDir, with the options of *)
(* saveCheckpoint; the commit and the reset may fail.                      *)

NextCalls ==
    \/ \E c \in 1 .. MaxContent : writeFile("a.txt", c)
    \/ (~constructed /\ new(projDir))
    \/ initShadowGit({}, FALSE, "none")
    \/ \E allowEmpty \in BOOLEAN : \E suppressMessage \in {"unset", "true", "false"} :
        \E fault \in {"none", "commit"} :
            saveCheckpoint(allowEmpty, suppressMessage, fault)
    \/ \E commitHash \in 1 .. Len(commits) : \E fault \in {"none", "reset"} :
            restoreCheckpoint(commitHash, fault)
    \/ getDiff(0, 0, "none")
    \/ getCheckpoints
    \/ \E branches \in {{"master"}, {"master", taskBranch}} :
        \E fault \in {"none", "branchLocal", "branch"} :
            deleteTask([branches |-> branches, current |-> "master", worktree |-> projDir],
                       0, fault)

SpecCalls == Init /\ [][NextCalls]_vars

----------------------------------------------------------------------------
(* SpecDiff: diffs.  One instance on projDir; a.txt is edited, b.txt is    *)
(* deleted and created again; changes are saved as checkpoints and the     *)
(* base commit is restored; getDiff is given from omitted or any commit,   *)
(* to omitted or the latest commit, and each of its calls may fail.        *)

DiffFaults ==
    {"none", "rev-list", "add", "diffSummary", "getConfig", "before", "after"}

NextDiff ==
    \/ \E c \in 1 .. MaxContent : writeFile("a.txt", c)
    \/ \E c \in 0 .. 1 : writeFile("b.txt", c)
    \/ (~constructed /\ new(projDir))
    \/ initShadowGit({}, FALSE, "none")
    \/ (changedFiles # {} /\ saveCheckpoint(FALSE, "unset", "none"))
    \/ (HEAD # 1 /\ restoreCheckpoint(1, "none"))
    \/ \E from \in 0 .. Len(commits) : \E to \in {0, Len(commits)} :
        \E fault \in DiffFaults :
            getDiff(from, to, fault)

SpecDiff == Init /\ [][NextDiff]_vars

----------------------------------------------------------------------------
(* SpecInit: initialization.  Instances are built one after the other on   *)
(* projDir or otherDir, with or without a nested repository in the         *)
(* workspace; an initialized instance commits checkpoints.                 *)

NextInit ==
    \/ \E wd \in {projDir, otherDir} : new(wd)
    \/ \E nested \in NestedChoices : \E onInit \in BOOLEAN : \E fault \in InitFaults :
            initShadowGit(nested, onInit, fault)
    \/ saveCheckpoint(TRUE, "unset", "none")

SpecInit == Init /\ [][NextInit]_vars

----------------------------------------------------------------------------
(* SpecNew: construction.  Instances are built on any directory and        *)
(* initialized.                                                            *)

NextNew ==
    \/ \E wd \in WorkspaceDirs : new(wd)
    \/ \E nested \in NestedChoices \cup {{libMarker}} :
        \E fault \in {"none", "executeRipgrep"} :
            initShadowGit(nested, FALSE, fault)

SpecNew == Init /\ [][NextNew]_vars

----------------------------------------------------------------------------
(* SpecRestore: restores of a workspace in which files come and go.  One   *)
(* instance on projDir; a.txt is edited, b.txt is deleted and created      *)
(* again; changes are saved and the commit may fail, getDiff stages what   *)
(* it finds, and any commit is restored.                                   *)

NextRestore ==
    \/ \E c \in 1 .. MaxContent : writeFile("a.txt", c)
    \/ \E c \in 0 .. 1 : writeFile("b.txt", c)
    \/ (~constructed /\ new(projDir))
    \/ initShadowGit({}, FALSE, "none")
    \/ \E fault \in {"none", "commit"} :
            (changedFiles # {} /\ saveCheckpoint(FALSE, "unset", fault))
    \/ \E commitHash \in 1 .. Len(commits) : restoreCheckpoint(commitHash, "none")
    \/ getDiff(0, 0, "none")

SpecRestore == Init /\ [][NextRestore]_vars

----------------------------------------------------------------------------
(* SpecLife: the life of instances on projDir.  Instances are built one    *)
(* after the other on the same repository, so that it is created once and  *)
(* opened again; initialization may fail in staging, in the lookup of the  *)
(* working-tree configuration, in writing the exclude file or in the       *)
(* caller's onInit; every operation is called before and after it.         *)

LifeInitFaults == {"none", "add", "getConfig", "writeExcludeFile", "onInit"}

NextLife ==
    \/ \E c \in 1 .. MaxContent : writeFile("a.txt", c)
    \/ new(projDir)
    \/ \E onInit \in BOOLEAN : \E fault \in LifeInitFaults :
            initShadowGit({}, onInit, fault)
    \/ \E fault \in {"none", "add"} : saveCheckpoint(FALSE, "unset", fault)
    \/ \E commitHash \in 1 .. Len(commits) : restoreCheckpoint(commitHash, "none")
    \/ \E fault \in {"none", "add", "getConfig"} : getDiff(0, 0, fault)

SpecLife == Init /\ [][NextLife]_vars

----------------------------------------------------------------------------
(* Properties of saving and restoring, checked under Spec.                 *)

savedByCall(h) == h \in 1 .. Len(savedFiles) /\ savedFiles[h].by = "save"

tracked == Files \ excludeFile

(* C1: saveCheckpoint on an initialized instance whose working tree has    *)
(* nothing to commit, allowEmpty unset, returns no result, leaves the      *)
(* checkpoint sequence as it was and emits no checkpoint event.            *)
C1_NoChangeSaveLeavesSequence ==
    (/\ last.op = "save" /\ last.preGit /\ last.fault = "none"
     /\ last.changed = {} /\ ~last.allowEmpty)
    => /\ last.outcome = "ok"
       /\ last.ret = 0
       /\ last.events = <<>>
       /\ checkpoints = last.preCheckpoints

(* C2: a restoreCheckpoint(h) that succeeds with h in the checkpoint       *)
(* sequence leaves the sequence cut after the first h: h is its last       *)
(* element, the entries before h are as they were, the entries after h are *)
(* gone.                                                                   *)
C2_RestoreTruncatesAtHash ==
    (/\ last.op = "restore" /\ last.outcome = "ok"
     /\ last.arg \in Range(last.preCheckpoints))
    => \E n \in 1 .. Len(last.preCheckpoints) :
          /\ checkpoints = SubSeq(last.preCheckpoints, 1, n)
          /\ checkpoints[n] = last.arg
          /\ \A j \in 1 .. n - 1 : last.preCheckpoints[j] # last.arg

C2_Witness ==
    /\ last.op = "restore" /\ last.outcome = "ok"
    /\ Len(last.preCheckpoints) = 2
    /\ last.preCheckpoints[1] # last.preCheckpoints[2]
    /\ last.arg = last.preCheckpoints[1]
    /\ checkpoints = <<last.arg>>

trackedFileModified ==
    \E f \in last.changed :
        last.preHEAD # 0 /\ treeOf(commits, last.preHEAD)[f] # 0 /\ files[f] # 0

appendedOneNewHash ==
    /\ checkpoints = Append(last.preCheckpoints, last.ret)
    /\ last.ret # 0
    /\ last.ret = Len(commits)
    /\ last.ret \notin Range(last.preCheckpoints) \cup {last.preBaseHash, last.preHEAD}
    /\ Len(last.events) = 1
    /\ last.events[1].type = "checkpoint"
    /\ last.events[1].toHash = checkpoints[Len(checkpoints)]

failureReported ==
    /\ last.outcome = "throw"
    /\ last.events = <<ErrorEvent>>
    /\ checkpoints = last.preCheckpoints
    /\ baseHash = last.preBaseHash

(* C5 as stated: when a git operation inside saveCheckpoint throws, the    *)
(* call emits an error event and rethrows, emits no checkpoint event and   *)
(* leaves the checkpoint sequence and baseHash as they were.               *)
C5_SaveFailureReported ==
    (last.op = "save" /\ last.preGit /\ last.fault # "none") => failureReported

(* C5: when the commit inside saveCheckpoint throws, the call emits an     *)
(* error event and rethrows, emits no checkpoint event and leaves the      *)
(* checkpoint sequence and baseHash as they were.                          *)
C5_CommitFailureReported ==
    (last.op = "save" /\ last.preGit /\ last.fault = "commit") => failureReported

C5_Witness ==
    /\ last.op = "save" /\ last.preGit /\ last.fault = "commit"
    /\ last.changed # {}
    /\ last.preCheckpoints # <<>>
    /\ failureReported

(* C14: a restoreCheckpoint call on an initialized instance either         *)
(* returns, having cleaned and reset to commitHash and then emitted        *)
(* exactly one event, the restore event carrying commitHash, or (when the  *)
(* clean or the reset throws) rethrows, having emitted exactly one event,  *)
(* the error event, and left the checkpoint sequence as it was.            *)
C14_RestoreEndsOneWay ==
    (last.op = "restore" /\ last.preGit)
    => \/ /\ last.outcome = "ok"
          /\ last.fault = "none"
          /\ last.calls = <<"clean", "reset">>
          /\ HEAD = last.arg
          /\ Len(last.events) = 1
          /\ last.events[1].type = "restore"
          /\ last.events[1].toHash = last.arg
       \/ /\ last.outcome = "throw"
          /\ last.fault \in {"clean", "reset"} \/ last.arg \notin 1 .. Len(commits)
          /\ last.events = <<ErrorEvent>>
          /\ checkpoints = last.preCheckpoints

C14_Witness ==
    /\ last.op = "restore" /\ last.preGit
    /\ last.outcome = "throw" /\ last.fault = "reset"
    /\ last.arg \in Range(last.preCheckpoints)
    /\ last.arg # last.preCheckpoints[Len(last.preCheckpoints)]
    /\ last.events = <<ErrorEvent>>
    /\ checkpoints = last.preCheckpoints

(* C16: in every reachable state each element of the checkpoint sequence   *)
(* is a commit whose parent is the element before it, baseHash for the     *)
(* first element, and no hash occurs twice in the sequence.                *)
C16_LinearHistory ==
    \A i \in 1 .. Len(checkpoints) :
        /\ checkpoints[i] \in 1 .. Len(commits)
        /\ commits[checkpoints[i]].parent =
              (IF i = 1 THEN baseHash ELSE checkpoints[i - 1])
        /\ \A j \in 1 .. Len(checkpoints) : j # i => checkpoints[j] # checkpoints[i]

----------------------------------------------------------------------------
(* Properties of the calls of one instance, checked under SpecCalls.       *)

(* C13: every checkpoint event is emitted by saveCheckpoint and carries as *)
(* fromHash the last element the checkpoint sequence had before the call,  *)
(* or baseHash when it was empty, as toHash the hash of the commit the     *)
(* call made, and as suppressMessage the option given, false when none was *)
(* given.                                                                  *)
C13_CheckpointEventFields ==
    \A i \in 1 .. Len(last.events) :
        last.events[i].type = "checkpoint"
        => /\ last.op = "save"
           /\ last.events[i].fromHash =
                 (IF last.preCheckpoints # <<>>
                  THEN last.preCheckpoints[Len(last.preCheckpoints)]
                  ELSE last.preBaseHash)
           /\ last.events[i].toHash = last.ret
           /\ last.ret = Len(commits) /\ last.ret = HEAD
           /\ commits[last.ret].parent = last.preHEAD
           /\ last.events[i].suppressMessage = (last.suppressMessage = "true")

C13_Witness ==
    /\ last.op = "save" /\ last.suppressMessage = "true"
    /\ last.preCheckpoints # <<>>
    /\ Len(last.events) = 1
    /\ last.events[1].type = "checkpoint"
    /\ last.events[1].suppressMessage
    /\ last.events[1].fromHash = last.preCheckpoints[Len(last.preCheckpoints)]
    /\ last.events[1].toHash = HEAD

isPrefix(s, t) == Len(s) <= Len(t) /\ s = SubSeq(t, 1, Len(s))

(* C15: every step leaves the checkpoint sequence as it was, or is a       *)
(* saveCheckpoint that appends one element at its end, or is a             *)
(* restoreCheckpoint that cuts it to one of its prefixes; initShadowGit,   *)
(* getDiff, getCheckpoints and deleteTask leave it as it was.              *)
C15_SequenceChangedBySaveAndRestore ==
    [][/\ \/ checkpoints' = checkpoints
          \/ /\ last'.op = "save"
             /\ Len(checkpoints') = Len(checkpoints) + 1
             /\ isPrefix(checkpoints, checkpoints')
          \/ /\ last'.op = "restore"
             /\ isPrefix(checkpoints', checkpoints)
       /\ last'.op \in {"init", "diff", "getCheckpoints", "deleteTask"}
            => checkpoints' = checkpoints]_vars

C15_Witness ==
    /\ Len(checkpoints) >= 2
    /\ checkpoints[1] # checkpoints[2]
    /\ last.op = "getCheckpoints"
    /\ last.list = checkpoints
    /\ last.preCheckpoints = checkpoints

----------------------------------------------------------------------------
(* Properties of getDiff, checked under SpecDiff.  In the record of a      *)
(* getDiff call arg is from and ret is to, 0 when omitted.                 *)

(* C17: a getDiff call makes no commit: the repository's commits and HEAD, *)
(* the checkpoint sequence and baseHash stay as they were and no event is  *)
(* emitted, whether it returns or throws; when it returns and git add did  *)
(* not fail, the index holds the working tree's changes.                   *)
C17_DiffMakesNoCommit ==
    [][last'.op = "diff"
       => /\ commits' = commits
          /\ HEAD' = HEAD
          /\ checkpoints' = checkpoints
          /\ baseHash' = baseHash
          /\ last'.events = <<>>
          /\ "commit" \notin Range(last'.calls)
          /\ (last'.outcome = "ok" /\ last'.fault # "add")
                => \A f \in Files \ excludeFile : index'[f] = files[f]]_vars

C17_Witness ==
    /\ last.op = "diff" /\ last.outcome = "ok"
    /\ checkpoints # <<>>
    /\ index # treeOf(commits, HEAD)
    /\ \A f \in Files \ excludeFile : index[f] = files[f]
    /\ last.events = <<>>

(* The repository's first commit.                                          *)
rootCommit == CHOOSE h \in 1 .. Len(commits) : commits[h].parent = 0

changedSinceRoot ==
    {f \in Files \ excludeFile : files[f] # commits[rootCommit].tree[f]}

diffAgainstRoot ==
    /\ \A e \in last.diff : e.before = commits[rootCommit].tree[e.relative]
    /\ \A f \in Files :
          (/\ last.ret = 0
           /\ changedSinceRoot = {f}
           /\ commits[rootCommit].tree[f] # 0 /\ files[f] # 0)
          => last.diff = {[relative |-> f, absolute |-> Append(last.wd, f),
                           before |-> commits[rootCommit].tree[f],
                           after |-> files[f]]}

(* C18 as stated: a getDiff call with from omitted that returns has the    *)
(* repository's first commit as its baseline, whatever was saved or        *)
(* restored since; with to omitted too and one tracked file modified, it   *)
(* returns exactly one entry, whose before is the file's content in the    *)
(* first commit and whose after is the file's content on disk.             *)
C18_DiffAgainstRoot ==
    (last.op = "diff" /\ last.outcome = "ok" /\ last.arg = 0) => diffAgainstRoot

(* C18: the same, for a call in which no read of a file's content failed.  *)
C18_DiffAgainstRootWhenRead ==
    (/\ last.op = "diff" /\ last.outcome = "ok" /\ last.arg = 0
     /\ last.fault \notin {"before", "after"})
    => diffAgainstRoot

C18_Witness ==
    /\ last.op = "diff" /\ last.outcome = "ok" /\ last.arg = 0 /\ last.ret = 0
    /\ last.fault = "none"
    /\ HEAD # rootCommit
    /\ changedSinceRoot = {"a.txt"}
    /\ commits[HEAD].tree["a.txt"] # commits[rootCommit].tree["a.txt"]
    /\ \A f \in Files \ excludeFile : files[f] = commits[HEAD].tree[f]
    /\ Cardinality(last.diff) = 1
    /\ diffAgainstRoot

(* The content one side of a diff entry has when it is read.               *)
sideContent(f, side) ==
    IF side = "before"
    THEN commits[IF last.arg = 0 THEN rootCommit ELSE last.arg].tree[f]
    ELSE IF last.ret # 0 THEN commits[last.ret].tree[f] ELSE files[f]

(* The files that differ between the two sides of the diff.                *)
differing ==
    {f \in Files \ excludeFile : sideContent(f, "before") # sideContent(f, "after")}

(* C19: a getDiff call in which the read of one file's before or after     *)
(* content fails returns without throwing and without an event; it returns *)
(* one record for every changed file, the failed side of that file is      *)
(* empty, and every other content is as read.                              *)
C19_ReadFailureDegrades ==
    (last.op = "diff" /\ last.preGit /\ last.fault \in {"before", "after"})
    => /\ last.outcome = "ok"
       /\ last.events = <<>>
       /\ {e.relative : e \in last.diff} = differing
       /\ Cardinality(last.diff) = Cardinality(differing)
       /\ \A e \in last.diff :
            /\ e.before = IF e.relative = "a.txt" /\ last.fault = "before" THEN 0
                           ELSE sideContent(e.relative, "before")
            /\ e.after = IF e.relative = "a.txt" /\ last.fault = "after" THEN 0
                          ELSE sideContent(e.relative, "after")

C19_Witness ==
    /\ last.op = "diff" /\ last.preGit /\ last.fault = "before"
    /\ last.outcome = "ok"
    /\ differing = {"a.txt", "b.txt"}
    /\ \E e \in last.diff :
          e.relative = "a.txt" /\ e.before = 0 /\ e.after = sideContent("a.txt", "after")
    /\ \E e \in last.diff :
          e.relative = "b.txt" /\ e.before = sideContent("b.txt", "before")
                               /\ e.before # 0

----------------------------------------------------------------------------
(* Properties of initialization, checked under SpecInit.                   *)

rejectedUnchanged ==
    /\ last.outcome = "throw"
    /\ last.err = "alreadyInitialized"
    /\ last.events = <<>>
    /\ last.calls = <<>>
    /\ baseHash = last.preBaseHash
    /\ checkpoints = last.preCheckpoints
    /\ HEAD = last.preHEAD

(* C6 as stated: initShadowGit called a second time on an instance fails   *)
(* with the already-initialized error; it makes no commit and emits no     *)
(* event, and baseHash and the checkpoint sequence stay as they were.      *)
C6_SecondInitFails ==
    (last.op = "init" /\ last.preInitCalls >= 1) => rejectedUnchanged

(* C6: initShadowGit called on an instance that an earlier call has        *)
(* initialized fails with the already-initialized error; it makes no       *)
(* commit and emits no event, and baseHash and the checkpoint sequence     *)
(* stay as they were.                                                      *)
C6_InitOnInitializedFails ==
    (last.op = "init" /\ last.preGit) => rejectedUnchanged

C6_Witness ==
    /\ last.op = "init" /\ last.preGit
    /\ last.preCheckpoints # <<>>
    /\ rejectedUnchanged

refusedNested ==
    /\ last.outcome = "throw"
    /\ last.err = "nestedGitRepo"
    /\ "commit" \notin Range(last.calls)
    /\ HEAD = last.preHEAD
    /\ ~git
    /\ baseHash = 0
    /\ last.events = <<>>

(* C7 as stated: on a workspace that holds a nested repository,            *)
(* initShadowGit of an uninitialized instance fails, makes no base commit, *)
(* leaves the instance uninitialized and emits no initialize event.        *)
C7_NestedRepositoryRefused ==
    (last.op = "init" /\ ~last.preGit /\ last.nested # {}) => refusedNested

(* C7: on a workspace that holds a nested repository, and when the         *)
(* enumeration of the workspace's paths does not fail, initShadowGit of an *)
(* uninitialized instance fails, makes no base commit, leaves the instance *)
(* uninitialized and emits no initialize event.                            *)
C7_ListedNestedRepositoryRefused ==
    (/\ last.op = "init" /\ ~last.preGit /\ last.nested # {}
     /\ last.fault # "executeRipgrep")
    => refusedNested

C7_Witness ==
    /\ last.op = "init" /\ ~last.preGit /\ last.nested = {nestedMarker}
    /\ last.fault = "none"
    /\ refusedNested

(* C9: when initShadowGit has created the repository and returned,         *)
(* baseHash is a commit hash (not empty) and the checkpoint sequence is    *)
(* empty.                                                                  *)
C9_BaseHashAfterCreation ==
    (last.op = "init" /\ last.outcome = "ok" /\ last.created)
    => /\ baseHash # 0
       /\ baseHash \in 1 .. Len(commits)
       /\ checkpoints = <<>>

C9_Witness ==
    /\ last.op = "init" /\ last.outcome = "ok" /\ last.created
    /\ index = EmptyTree
    /\ baseHash = HEAD /\ HEAD # 0
    /\ checkpoints = <<>>

(* C10: when initShadowGit has reopened an existing repository and         *)
(* returned, baseHash is the repository's initial commit, whatever         *)
(* checkpoints were committed before.                                      *)
C10_ReopenedBaseHashIsInitialCommit ==
    (last.op = "init" /\ last.outcome = "ok" /\ ~last.created)
    => baseHash = rootOf(commits, HEAD)

(* The commits made by initShadowGit.                                      *)
initCommits == {h \in 1 .. Len(savedFiles) : savedFiles[h].by = "init"}

(* C11: over all initShadowGit calls of all instances on one metadata      *)
(* directory the initial commit is made at most once, by the call that     *)
(* creates the repository, which makes exactly that one commit when it     *)
(* succeeds; a call that finds the repository existing makes no commit.    *)
C11_BaseCommitOnce ==
    [][/\ (last'.op = "init" /\ dotGit) => (commits' = commits /\ HEAD' = HEAD)
       /\ (last'.op = "init" /\ last'.outcome = "ok" /\ ~dotGit)
            => /\ Len(commits') = Len(commits) + 1
               /\ initCommits' = {Len(commits')}
       /\ Cardinality(initCommits') <= 1]_vars

C11_Witness ==
    /\ last.op = "init" /\ last.outcome = "ok" /\ ~last.created
    /\ last.preInitCalls = 0
    /\ Len(commits) >= 2
    /\ initCommits = {1}

(* C12: an initShadowGit call of an uninitialized instance that finds the  *)
(* repository existing with a core.worktree other than the instance's      *)
(* workspaceDir fails with the mismatch error; the instance stays          *)
(* uninitialized with baseHash unset, the exclude file and core.worktree   *)
(* are not written, and no event is emitted.                               *)
C12_WorktreeMismatchFatal ==
    [][(/\ last'.op = "init" /\ ~git /\ dotGit
        /\ "fileExists" \in Range(last'.calls)
        /\ coreWorktree # workspaceDir)
       => /\ last'.outcome = "throw"
          /\ last'.err = "worktreeMismatch"
          /\ ~git'
          /\ baseHash' = 0
          /\ last'.events = <<>>
          /\ "writeExcludeFile" \notin Range(last'.calls)
          /\ excludeFile' = excludeFile
          /\ coreWorktree' = coreWorktree]_vars

C12_Witness ==
    /\ last.op = "init" /\ last.err = "worktreeMismatch"
    /\ last.wd = otherDir
    /\ coreWorktree = projDir
    /\ HEAD # 0
    /\ ~git /\ baseHash = 0

(* C20: an initShadowGit call that returns has emitted exactly one event,  *)
(* the initialize event, carrying the instance's workspaceDir and baseHash *)
(* and created, which is true exactly when the repository's metadata did   *)
(* not exist before the call and is the created flag returned; a call that *)
(* throws has emitted no initialize event.                                 *)
C20_InitializeEvent ==
    [][last'.op = "init"
       => IF last'.outcome = "ok"
          THEN /\ Len(last'.events) = 1
               /\ last'.events[1].type = "initialize"
               /\ last'.events[1].workspaceDir = workspaceDir'
               /\ last'.events[1].toHash = baseHash'
               /\ last'.events[1].created = ~dotGit
               /\ last'.created = last'.events[1].created
          ELSE \A i \in 1 .. Len(last'.events) :
                   last'.events[i].type # "initialize"]_vars

C20_Witness ==
    /\ last.op = "init" /\ last.outcome = "ok"
    /\ "onInit" \in Range(last.calls)
    /\ Len(last.events) = 1
    /\ last.events[1].type = "initialize"
    /\ ~last.events[1].created
    /\ last.events[1].workspaceDir = projDir
    /\ last.events[1].toHash = baseHash /\ baseHash # 0

----------------------------------------------------------------------------
(* Properties of construction, checked under SpecNew.                      *)

(* C8: the constructor given the home directory or its Desktop, Documents  *)
(* or Downloads directory as workspaceDir throws before any call to the    *)
(* file system and before any field is assigned, and no instance on such a *)
(* workspace is ever initialized.                                          *)
C8_ProtectedWorkspaceRejected ==
    LET protected == {<<"home", "user">>, <<"home", "user", "Desktop">>,
                      <<"home", "user", "Documents">>, <<"home", "user", "Downloads">>}
    IN  /\ (last.op = "new" /\ last.wd \in protected)
            => /\ last.outcome = "throw"
               /\ last.calls = <<>>
               /\ ~constructed
               /\ workspaceDir = NoPath
               /\ ~git
               /\ baseHash = 0
        /\ workspaceDir \notin protected
        /\ git => last.wd \notin protected

C8_Witness ==
    /\ last.op = "new" /\ last.wd = <<"home", "user", "Downloads">>
    /\ last.outcome = "throw"
    /\ ~constructed
    /\ warningsShown # {}

----------------------------------------------------------------------------
(* SpecBranch: deleteTask on every repository: the task's branch is there  *)
(* or not, HEAD is on it or on another branch, the default branch is main  *)
(* or master, core.worktree is set or not; each git call may be rejected   *)
(* and the branch switch is seen at once, late or not within the timeout.  *)

NextBranch ==
    \E repository \in Repositories : \E lag \in 0 .. MaxPolls : \E fault \in BranchFaults :
        /\ repository.current \in repository.branches
        /\ deleteTask(repository, lag, fault)

SpecBranch == Init /\ [][NextBranch]_vars

----------------------------------------------------------------------------
(* Properties of the life of instances, checked under SpecLife.            *)

notInitializedFailure ==
    /\ last.outcome = "throw"
    /\ last.err = "notInitialized"
    /\ last.calls = <<>>
    /\ checkpoints = last.preCheckpoints
    /\ baseHash = last.preBaseHash

(* C21, as stated: saveCheckpoint, restoreCheckpoint and getDiff on an     *)
(* instance on which no initShadowGit has returned fail with the           *)
(* not-initialized error, make no git call and leave the checkpoint        *)
(* sequence and the base hash as they were.  Refuted: an initShadowGit     *)
(* whose onInit threw has set the git handle already.                      *)
C21_UninitializedCallsFail ==
    (last.op \in {"save", "restore", "diff"} /\ last.preInitCalls # 2)
    => notInitializedFailure

(* C21, corrected: saveCheckpoint, restoreCheckpoint and getDiff on an     *)
(* instance whose git handle is unset fail with the not-initialized error, *)
(* make no git call and leave the checkpoint sequence and the base hash as *)
(* they were.                                                              *)
C21_CallsWithoutGitFail ==
    (last.op \in {"save", "restore", "diff"} /\ ~last.preGit)
    => notInitializedFailure

C21_Witness ==
    /\ last.op = "restore" /\ ~last.preGit /\ last.preInitCalls = 1
    /\ Len(commits) >= 2
    /\ notInitializedFailure

(* An external call of the last call was made before another.              *)
calledBefore(x, y) ==
    \E i, j \in DOMAIN last.calls :
        i < j /\ last.calls[i] = x /\ last.calls[j] = y

(* C26: a git add that fails in initShadowGit, saveCheckpoint or getDiff   *)
(* does not make the call fail and produces no error event; the call goes  *)
(* on to its commit or to its diff.                                        *)
C26_StagingFailureSwallowed ==
    (/\ last.op \in {"init", "save", "diff"}
     /\ last.fault = "add"
     /\ "add" \in Range(last.calls))
    => /\ last.outcome = "ok"
       /\ \A i \in DOMAIN last.events : last.events[i].type # "error"
       /\ IF last.op = "diff" THEN calledBefore("add", "diffSummary")
                              ELSE calledBefore("add", "commit")

C26_Witness ==
    /\ last.op = "save" /\ last.fault = "add" /\ "add" \in Range(last.calls)
    /\ last.changed # {}
    /\ last.outcome = "ok"
    /\ calledBefore("add", "commit")

(* How many times an external call was made by the last call.              *)
callsOf(x) == Cardinality({i \in DOMAIN last.calls : last.calls[i] = x})

(* C29: an initShadowGit that succeeds writes the exclude file exactly     *)
(* once, creating or opening the repository; when it creates it, the write *)
(* comes before the staging and the base commit, and no excluded file is   *)
(* in the base commit; saveCheckpoint, restoreCheckpoint and getDiff do    *)
(* not write the exclude file.                                             *)
C29_ExcludeFileWrittenOncePerInit ==
    [][/\ (last'.op = "init" /\ last'.outcome = "ok")
            => /\ callsOf("writeExcludeFile")' = 1
               /\ excludeFile' = getExcludePatterns
               /\ last'.created
                    => /\ calledBefore("writeExcludeFile", "add")'
                       /\ calledBefore("add", "commit")'
                       /\ \A f \in getExcludePatterns : commits'[baseHash'].tree[f] = 0
       /\ last'.op \in {"save", "restore", "diff"}
            => /\ callsOf("writeExcludeFile")' = 0
               /\ excludeFile' = excludeFile]_vars

(* A repository created with an excluded file in the workspace.            *)
C29_Witness ==
    /\ last.op = "init" /\ last.outcome = "ok" /\ last.created
    /\ last.fault = "none"
    /\ files["e.log"] # 0
    /\ commits[baseHash].tree["e.log"] = 0
    /\ commits[baseHash].tree["a.txt"] # 0
    /\ callsOf("writeExcludeFile") = 1

(* C30: a lookup of core.worktree that fails does not make the call it is  *)
(* part of fail: getDiff returns its entries with absolute paths under     *)
(* workspaceDir, and initShadowGit opening an existing repository does not *)
(* fail.  Refuted for initShadowGit: the value is undefined after the      *)
(* failed lookup and is rejected as a mismatch.                            *)
C30_LookupFailureSwallowed ==
    /\ (last.op = "diff" /\ last.preGit /\ last.fault = "getConfig")
        => /\ last.outcome = "ok"
           /\ \A e \in last.diff : e.absolute = join(workspaceDir, e.relative)
    /\ (last.op = "init" /\ last.fault = "getConfig"
            /\ "getConfig" \in Range(last.calls))
        => last.outcome = "ok"

(* C35: in an initShadowGit that calls onInit, onInit is the last call     *)
(* made, the instance is initialized with baseHash set whether onInit     *)
(* returns or throws, and the initialize event is emitted only when it     *)
(* returns; after an onInit that threw the call fails without an event,    *)
(* and a later initShadowGit on the instance fails as already initialized. *)
C35_OnInitBetweenInitializedAndEvent ==
    [][/\ (last'.op = "init" /\ ~git /\ "onInit" \in Range(last'.calls))
            => /\ last'.calls[Len(last'.calls)] = "onInit"
               /\ git' /\ baseHash' # 0
               /\ IF last'.fault = "onInit"
                  THEN /\ last'.outcome = "throw" /\ last'.err = "onInit"
                       /\ last'.events = <<>>
                  ELSE /\ last'.outcome = "ok"
                       /\ Len(last'.events) = 1
                       /\ last'.events[1].type = "initialize"
       /\ (last'.op = "init" /\ last.op = "init" /\ last.err = "onInit")
            => /\ last'.outcome = "throw"
               /\ last'.err = "alreadyInitialized"
               /\ last'.events = <<>>]_vars

(* An initShadowGit rejected as already initialized on an instance on      *)
(* which no initShadowGit has returned: its onInit threw.                  *)
C35_Witness ==
    /\ last.op = "init" /\ last.err = "alreadyInitialized"
    /\ last.preInitCalls = 1
    /\ git /\ baseHash # 0

(* C36: after every operation isInitialized is true exactly when baseHash  *)
(* is defined, and an operation on an initialized instance leaves it       *)
(* initialized with baseHash defined.                                      *)
C36_InitializedIffBaseHash ==
    [][/\ isInitialized' <=> baseHash' # 0
       /\ (isInitialized /\ last'.op # "new")
            => (isInitialized' /\ baseHash' # 0)]_vars

(* A failed initShadowGit that had the repository open leaves neither.     *)
C36_Witness ==
    /\ last.op = "init" /\ last.outcome = "throw" /\ last.fault = "writeExcludeFile"
    /\ "getConfig" \in Range(last.calls)
    /\ ~isInitialized /\ baseHash = 0
    /\ Len(commits) >= 1

----------------------------------------------------------------------------
(* Properties of the warnings, checked under SpecNew.                      *)

(* The call wanted to warn: a protected workspace, a nested repository.    *)
warned == last.op \in {"new", "init"} /\ last.err \in {"protected", "nestedGitRepo"}

(* C25: at most MaxWarnings warning dialogs are opened in all, and none    *)
(* with a message a dialog was opened with before: a call opens at most    *)
(* one dialog, its message was not among the messages shown, it is among   *)
(* them afterwards, and they are never more than MaxWarnings.              *)
C25_WarningsCappedAndDistinct ==
    [][/\ Len(last'.dialogs) <= 1
       /\ \A i \in DOMAIN last'.dialogs : last'.dialogs[i] \notin warningsShown
       /\ warningsShown' = warningsShown \cup Range(last'.dialogs)
       /\ Cardinality(warningsShown') <= MaxWarnings]_vars

(* A sixth message is not shown, and a message shown before is not shown   *)
(* again.                                                                  *)
C25_Witness ==
    /\ Cardinality(warningsShown) = MaxWarnings
    /\ warned
    /\ last.dialogs = <<>>
    /\ last.op = "init"
    /\ <<"nestedGitRepos", <<"lib">>>> \notin warningsShown

(* C34: when the path enumeration of the nested-repository detector fails, *)
(* the detector reports none and initShadowGit goes on and ends as it      *)
(* would for a workspace without nested repositories: no nested-repository *)
(* error, no warning, the same outcome, events and repository.             *)
C34_DetectorFailureDoesNotBlock ==
    [][(/\ last'.op = "init" /\ last'.fault = "executeRipgrep"
        /\ constructed /\ ~git)
       => LET r == initOutcome({}, FALSE, "none") IN
          /\ last'.err # "nestedGitRepo"
          /\ last'.dialogs = <<>>
          /\ warningsShown' = warningsShown
          /\ last'.outcome = r.outcome
          /\ last'.err = r.err
          /\ last'.events = r.events
          /\ git' = r.git
          /\ baseHash' = r.baseHash
          /\ commits' = r.commits
          /\ "mkdir" \in Range(last'.calls)]_vars

C34_Witness ==
    /\ last.op = "init" /\ last.fault = "executeRipgrep"
    /\ last.nested = {nestedMarker}
    /\ last.outcome = "ok"
    /\ last.created
    /\ git

----------------------------------------------------------------------------
(* Properties of deleting a task's branch, checked under SpecBranch.       *)

(* deleteBranch was called for a branch that exists and that HEAD is on.   *)
deletesCurrent ==
    /\ last.op = "deleteTask"
    /\ taskBranch \in last.branch.before.branches
    /\ last.branch.before.current = taskBranch

(* main if it is among the local branches, master otherwise.               *)
expectedDefault ==
    IF "main" \in last.branch.before.branches THEN "main" ELSE "master"

(* The calls checkout, the polls and branch -D were made in this order.    *)
switchedThenDeleted ==
    \E i, k \in DOMAIN last.calls :
        /\ last.calls[i] = "checkout"
        /\ last.calls[k] = "branch"
        /\ i < k
        /\ \E j \in DOMAIN last.calls : last.calls[j] = "poll"
        /\ \A j \in DOMAIN last.calls : last.calls[j] = "poll" => (i < j /\ j < k)

(* C22: deleteBranch for the branch HEAD is on checks the default branch   *)
(* out (main if it is a local branch, master otherwise) and sees HEAD on   *)
(* it in a poll before it issues the branch delete; the delete is never    *)
(* issued while HEAD is on the branch to delete; after a call that returns *)
(* true the branch is not among the local branches.                        *)
C22_SwitchConfirmedBeforeDelete ==
    deletesCurrent
    => /\ "branch" \in Range(last.calls)
            => /\ switchedThenDeleted
               /\ last.branch.polls > last.branch.lag
               /\ last.branch.headAtDelete = expectedDefault
               /\ last.branch.headAtDelete # taskBranch
       /\ last.branch.success
            => /\ "branch" \in Range(last.calls)
               /\ taskBranch \notin last.branch.after.branches
               /\ last.branch.after.current = expectedDefault

C22_Witness ==
    /\ deletesCurrent
    /\ last.branch.success
    /\ last.branch.lag = 2
    /\ last.branch.before.branches = {"main", "master", taskBranch}
    /\ last.branch.after.branches = {"main", "master"}

(* C23, as stated: the wait for the branch switch stops after the timeout  *)
(* and a switch that is not confirmed makes deleteBranch throw.  Refuted:  *)
(* the timeout is caught and deleteBranch returns false.                   *)
C23_TimeoutThrows ==
    (deletesCurrent /\ last.branch.timedOut)
    => (last.branch.polls <= MaxPolls /\ last.outcome = "throw")

(* C23, corrected: the wait for the branch switch makes at most MaxPolls   *)
(* polls; when none of them sees the switch, deleteBranch does not issue   *)
(* the branch delete and returns false, and it throws only if putting      *)
(* core.worktree back is rejected.                                         *)
C23_WaitBoundedTimeoutReturnsFalse ==
    deletesCurrent
    => /\ last.branch.polls <= MaxPolls
       /\ last.branch.lag >= MaxPolls /\ "checkout" \in Range(last.calls)
                /\ "poll" \in Range(last.calls) /\ last.fault # "poll"
            => last.branch.timedOut
       /\ last.branch.timedOut
            => /\ last.branch.polls = MaxPolls
               /\ "branch" \notin Range(last.calls)
               /\ ~last.branch.success
               /\ last.branch.after.branches = last.branch.before.branches
               /\ last.outcome = "throw"
                    <=> (last.fault = "addConfig" /\ last.branch.before.worktree # NoPath)

C23_Witness ==
    /\ deletesCurrent
    /\ last.branch.timedOut
    /\ last.fault = "none"
    /\ last.outcome = "ok"
    /\ ~last.branch.success

(* C24, as stated: whatever way deleteBranch for the branch HEAD is on     *)
(* ends, core.worktree has the value it had, when it had one.  Refuted:    *)
(* the call that puts it back can be rejected.                             *)
C24_WorktreeRestoredAlways ==
    (deletesCurrent /\ last.branch.before.worktree # NoPath)
    => last.branch.after.worktree = last.branch.before.worktree

(* C24, corrected: whatever way deleteBranch for the branch HEAD is on     *)
(* ends (true, a rejected git call, the timeout of the wait),              *)
(* core.worktree has the value it had, when it had one, unless the call    *)
(* that puts it back was rejected; then deleteBranch throws and            *)
(* core.worktree is left unset.                                            *)
C24_WorktreeRestoredUnlessRejected ==
    (deletesCurrent /\ last.branch.before.worktree # NoPath)
    => IF last.fault = "addConfig"
       THEN last.outcome = "throw" /\ last.branch.after.worktree = NoPath
       ELSE last.branch.after.worktree = last.branch.before.worktree

C24_Witness ==
    /\ deletesCurrent
    /\ last.branch.before.worktree = projDir
    /\ last.branch.timedOut
    /\ "unset" \in Range(last.calls)
    /\ last.calls[Len(last.calls)] = "addConfig"
    /\ last.branch.after.worktree = projDir

(* The destructive calls of deleteBranch.                                  *)
Destructive == {"reset", "clean", "checkout"}

(* C31: in deleteBranch for the branch HEAD is on, the hard reset, the     *)
(* clean and the forced checkout are made only after core.worktree has     *)
(* been unset; when the unset fails none of them is made; so none of them  *)
(* acts on the files of the user's workspace directory.                    *)
C31_DestructiveStepsAfterUnset ==
    deletesCurrent
    => /\ \A x \in Destructive :
            x \in Range(last.calls) => calledBefore("unset", x)
       /\ last.fault = "unset" => Range(last.calls) \cap Destructive = {}
       /\ last.wd \notin last.branch.actedOn
       /\ Range(last.calls) \cap Destructive # {}
            => last.branch.actedOn = {workspaceRepoDir}

C31_Witness ==
    /\ deletesCurrent
    /\ last.branch.before.worktree = last.wd
    /\ Destructive \subseteq Range(last.calls)
    /\ last.branch.actedOn = {workspaceRepoDir}
    /\ last.branch.success

(* C38: deleteBranch for a branch that is not among the local branches     *)
(* returns false and changes nothing: core.worktree, the branch HEAD is    *)
(* on, the local branches and the workspace files are as before; it makes  *)
(* no git call after the listing of the branches, and deleteTask returns.  *)
C38_MissingBranchChangesNothing ==
    [][(/\ last'.op = "deleteTask"
        /\ last'.fault # "branchLocal"
        /\ taskBranch \notin last'.branch.before.branches)
       => /\ last'.outcome = "ok"
          /\ ~last'.branch.success
          /\ last'.branch.after = last'.branch.before
          /\ last'.calls = <<"branchLocal">>
          /\ last'.branch.actedOn = {}
          /\ files' = files]_vars

C38_Witness ==
    /\ last.op = "deleteTask"
    /\ last.branch.before = [branches |-> {"master"}, current |-> "master",
                             worktree |-> projDir]
    /\ last.outcome = "ok"
    /\ ~last.branch.success
    /\ last.branch.after = last.branch.before

----------------------------------------------------------------------------
(* Properties of restoring the base commit, checked under Spec.            *)

(* C27: a restoreCheckpoint(baseHash) that succeeds leaves the checkpoint  *)
(* sequence as it was.  Refuted: a saveCheckpoint with nothing to commit   *)
(* has put the base hash in the sequence, and the restore cuts it there.   *)
C27_RestoreBaseKeepsSequence ==
    (/\ last.op = "restore" /\ last.preGit /\ last.outcome = "ok"
     /\ last.arg = last.preBaseHash)
    => checkpoints = last.preCheckpoints

----------------------------------------------------------------------------
(* Properties of restoring, checked under SpecRestore.                     *)

(* The files that were not in the commit restored and were in the          *)
(* workspace when the restore began.                                       *)
createdSince == {f \in tracked : commits[last.arg].tree[f] = 0 /\ f \in last.changed}

(* C28: after a restoreCheckpoint(h) that succeeds, the files that are not *)
(* excluded are those of commit h's snapshot, with its contents; a file    *)
(* created after h is gone, untracked or staged.                           *)
C28_RestoreGivesSnapshot ==
    (last.op = "restore" /\ last.preGit /\ last.outcome = "ok")
    => \A f \in tracked : files[f] = commits[last.arg].tree[f]

(* A file created after h and staged by a getDiff or by a save whose       *)
(* commit failed is removed.                                               *)
C28_Witness ==
    /\ last.op = "restore" /\ last.preGit /\ last.outcome = "ok"
    /\ "b.txt" \in createdSince
    /\ last.preIndex["b.txt"] # 0
    /\ commits[last.preHEAD].tree["b.txt"] = 0
    /\ files["b.txt"] = 0

----------------------------------------------------------------------------
(* Properties of the events of a call, checked under Spec.                 *)

emitted(type) == \E i \in DOMAIN last.events : last.events[i].type = type

(* C37: no saveCheckpoint or restoreCheckpoint call emits both its success *)
(* event (checkpoint, restore) and an error event, and after a call that   *)
(* emitted an error event the checkpoint sequence is the one before the    *)
(* call.                                                                   *)
C37_SuccessOrErrorEvent ==
    (last.op \in {"save", "restore"})
    => /\ ~(emitted("error") /\ (emitted("checkpoint") \/ emitted("restore")))
       /\ emitted("error") => checkpoints = last.preCheckpoints

(* A restore to an earlier checkpoint whose reset failed.                  *)
C37_Witness ==
    /\ last.op = "restore" /\ last.preGit /\ last.fault = "reset"
    /\ emitted("error")
    /\ indexOf(last.preCheckpoints, last.arg) \in 1 .. Len(last.preCheckpoints) - 1
    /\ checkpoints = last.preCheckpoints

----------------------------------------------------------------------------
(* Overlapping calls on one instance. A call runs from one await to the    *)
(* next without interruption; at an await it is suspended and another call *)
(* may start or resume. Every awaited call succeeds.                       *)

Await == Call("await", workspaceDir, 0, FALSE, "none", "none", "", 0, <<>>, <<>>)

inFlight(op) == {c \in CallIds : running[c].op = op}
noneInFlight == \A c \in CallIds : running[c] = Idle

(* initShadowGit from the call to its first await: the guard of lines      *)
(* 90-92.                                                                  *)
initShadowGitCall(c, nested, onInit) ==
    /\ constructed
    /\ running[c] = Idle
    /\ IF isInitialized
       THEN /\ initEffect(threw(initStart, "alreadyInitialized", <<>>), nested, "none")
            /\ UNCHANGED running
       ELSE /\ running' = [running EXCEPT ![c] = [Idle EXCEPT !.op = "init",
                                                             !.pc = "guarded",
                                                             !.nested = nested,
                                                             !.onInit = onInit]]
            /\ last' = Await
            /\ UNCHANGED <<repo, git, baseHash, shadowGitConfigWorktree,
                           warningsShown>>
    /\ initCalls' = IF initCalls = 2 THEN 2 ELSE 1
    /\ UNCHANGED <<files, constructed, workspaceDir, checkpoints, faults>>

(* Lines 94-116: the awaits up to the answer of fileExistsAtPath.          *)
initShadowGitChecked(c) ==
    /\ running[c].op = "init"
    /\ running[c].pc = "guarded"
    /\ LET s == initCheck(running[c].nested, "none") IN
       IF s.outcome = "throw"
       THEN /\ initEffect(s, running[c].nested, "none")
            /\ running' = [running EXCEPT ![c] = Idle]
       ELSE /\ running' = [running EXCEPT ![c].pc = "checked",
                                          ![c].exists = fileExistsAtPath]
            /\ last' = Await
            /\ UNCHANGED <<repo, git, baseHash, shadowGitConfigWorktree,
                           warningsShown>>
    /\ UNCHANGED <<files, constructed, workspaceDir, checkpoints, initCalls, faults>>

(* Lines 116-160: the branch chosen by that answer, to the return.         *)
initShadowGitReturn(c) ==
    /\ running[c].op = "init"
    /\ running[c].pc = "checked"
    /\ LET st == [initStart EXCEPT
                    !.calls = <<"executeRipgrep", "mkdir", "version", "fileExists">>]
           r == initRest(st, running[c].exists, running[c].onInit, "none")
       IN  /\ initEffect(r, running[c].nested, "none")
           /\ initCalls' = IF r.outcome = "ok" THEN 2 ELSE initCalls
    /\ running' = [running EXCEPT ![c] = Idle]
    /\ UNCHANGED <<files, constructed, workspaceDir, checkpoints, faults>>

(* Line 269: the hash a save reads as the previous one, when its commit    *)
(* has returned.                                                           *)
previousHash_atCall(c) == running[c].atCall
previousHash(c) == fromHashOf(checkpoints, baseHash)

(* saveCheckpoint from the call to its first await, lines 256-265.         *)
saveCheckpointCall(c, allowEmpty, suppressMessage) ==
    /\ constructed
    /\ running[c] = Idle
    /\ Len(checkpoints) + Cardinality(inFlight("save")) < MaxCommits
    /\ Len(commits) + Cardinality(inFlight("save")) < MaxCommits
    /\ IF ~isInitialized
       THEN LET r == caught(opStart, "notInitialized", <<>>) IN
            /\ last' = [Call("save", workspaceDir, 0, allowEmpty, "none", r.outcome,
                             r.err, r.ret, r.events, r.calls)
                        EXCEPT !.suppressMessage = suppressMessage]
            /\ UNCHANGED running
       ELSE /\ running' = [running EXCEPT ![c] =
                             [Idle EXCEPT !.op = "save", !.pc = "called",
                                          !.allowEmpty = allowEmpty,
                                          !.suppressMessage = suppressMessage,
                                          !.atCall = fromHashOf(checkpoints, baseHash)]]
            /\ last' = Await
    /\ UNCHANGED <<files, repo, inst, warningsShown, faults>>

(* Line 265: git add has returned.                                         *)
saveCheckpointStaged(c) ==
    /\ running[c].op = "save"
    /\ running[c].pc = "called"
    /\ index' = stageAll(index, workTree, excludeFile, "none")
    /\ running' = [running EXCEPT ![c].pc = "staged"]
    /\ last' = Await
    /\ UNCHANGED <<files, dotGit, coreWorktree, excludeFile, commits, HEAD, savedFiles,
                   inst, warningsShown, faults>>

(* Line 267: git commit has returned; result.commit is kept by the call.   *)
saveCheckpointCommitted(c) ==
    /\ running[c].op = "save"
    /\ running[c].pc = "staged"
    /\ LET commit == commitOf(index, commits, HEAD, running[c].allowEmpty) IN
        /\ IF commit # 0
           THEN /\ commits' = Append(commits, [tree |-> index, parent |-> HEAD])
                /\ savedFiles' = Append(savedFiles, [by |-> "save", files |-> workTree,
                                                     staged |-> TRUE])
                /\ HEAD' = commit
           ELSE UNCHANGED <<commits, savedFiles, HEAD>>
        /\ running' = [running EXCEPT ![c].pc = "committed", ![c].commit = commit]
    /\ last' = Await
    /\ UNCHANGED <<files, dotGit, coreWorktree, excludeFile, index, inst,
                   warningsShown, faults>>

(* Lines 269-291: from the resumption after the commit to the return; no   *)
(* await lies between the read of line 269 and the push of line 271.       *)
saveCheckpointReturn(c) ==
    /\ running[c].op = "save"
    /\ running[c].pc = "committed"
    /\ LET commit == running[c].commit
           fromHash == previousHash(c)
           toHash == IF commit # 0 THEN commit ELSE fromHash
       IN  /\ checkpoints' = Append(checkpoints, toHash)
           /\ last' = [Call("save", workspaceDir, 0, running[c].allowEmpty, "none",
                            "ok", "", commit,
                            checkpointEvents(fromHash, commit,
                                             running[c].suppressMessage),
                            <<"add", "commit">>)
                       EXCEPT !.suppressMessage = running[c].suppressMessage]
    /\ running' = [running EXCEPT ![c] = Idle]
    /\ UNCHANGED <<files, repo, constructed, workspaceDir, git, baseHash,
                   shadowGitConfigWorktree, initCalls, warningsShown, faults>>

(* One workspace and one instance at a time, whose initShadowGit and       *)
(* saveCheckpoint calls overlap; the instance is replaced only when no     *)
(* call is in flight.                                                      *)
NextRace ==
    \/ \E v \in 1 .. MaxContent : writeFile("a.txt", v)
    \/ noneInFlight /\ new(projDir)
    \/ \E c \in CallIds : \E nested \in NestedChoices : initShadowGitCall(c, nested, FALSE)
    \/ \E c \in CallIds : initShadowGitChecked(c)
    \/ \E c \in CallIds : initShadowGitReturn(c)
    \/ \E c \in CallIds : \E allowEmpty \in BOOLEAN :
            saveCheckpointCall(c, allowEmpty, "unset")
    \/ \E c \in CallIds : saveCheckpointStaged(c)
    \/ \E c \in CallIds : saveCheckpointCommitted(c)
    \/ \E c \in CallIds : saveCheckpointReturn(c)

SpecRace == Init /\ [][NextRace]_vars

----------------------------------------------------------------------------
(* Properties of overlapping calls, checked under SpecRace.                *)

(* C33: at most one initShadowGit call per instance succeeds, also when    *)
(* calls overlap: a call that returns normally finds the instance not yet  *)
(* initialized, so no instance emits two initialize events.                *)
C33_OneInitSucceeds ==
    [][(last'.op = "init" /\ last'.outcome = "ok") => ~isInitialized]_vars

(* C32: a saveCheckpoint that returns appends exactly one hash to the      *)
(* checkpoint sequence as it is at that moment, and the fromHash of its    *)
(* checkpoint event is the element the new hash follows, or baseHash when  *)
(* the new hash comes first.                                               *)
C32_AppendFollowsFromHash ==
    [][(last'.op = "save" /\ last'.outcome = "ok")
       => /\ Len(checkpoints') = Len(checkpoints) + 1
          /\ SubSeq(checkpoints', 1, Len(checkpoints)) = checkpoints
          /\ emitted("checkpoint")' =>
                LET e == last'.events[1]
                    n == Len(checkpoints')
                IN  /\ checkpoints'[n] = e.toHash
                    /\ e.fromHash = IF n = 1 THEN baseHash ELSE checkpoints'[n - 1]]_vars

(* A save returns with a checkpoint event after a save that began later    *)
(* has appended the hash of a later commit.                                *)
C32_Witness ==
    /\ last.op = "save" /\ last.outcome = "ok" /\ emitted("checkpoint")
    /\ Len(checkpoints) = 2
    /\ last.preCheckpoints = <<checkpoints[1]>>
    /\ last.events[1].fromHash = checkpoints[1]
    /\ last.events[1].toHash = checkpoints[2]
    /\ checkpoints[2] < checkpoints[1]

====
